---- MODULE Spec2Model ----
(***************************************************************************)
(* Model of osmosis-discover-js/src/listInterfaces.cpp: ListInterfaces,    *)
(* the N-API function that enumerates the host's IPv4 interfaces with      *)
(* getifaddrs / inet_ntop / freeifaddrs.                                   *)
(*                                                                         *)
(* One invocation is the steps query, loop (one step per entry), free and  *)
(* return; invocations of two threads interleave.  Undefined behaviour is  *)
(* a choice over its outcomes:                                             *)
(*  - the local interfaces is never assigned when getifaddrs fails (libcs  *)
(*    differ in whether they store NULL first): it then holds NULL, the    *)
(*    address of a list allocated earlier, or an address of no list;       *)
(*  - reading a released list finds its contents still there, or faults;   *)
(*  - releasing a released list goes unnoticed, or faults;                 *)
(*  - a load through a null ifa_addr / ifa_broadaddr, or through an        *)
(*    address of no list, reads unmapped memory: the process faults.       *)
(***************************************************************************)
EXTENDS Integers, Sequences, FiniteSets

(* ------------------------------ bounds --------------------------------- *)

\* longest entry list the OS reports
MaxLen == 2
\* number of invocations of ListInterfaces in one behaviour
MaxCalls == 2

(* ----------------------------- constants ------------------------------- *)

\* the null pointer (loop condition ifa != NULL)
NULL == 0
\* size of ip_addr_buffer
INET_ADDRSTRLEN == 16

\* a pointer value that is neither null nor the address of any entry list
WildPtr == NULL - 1

AF_INET == "AF_INET"
AF_INET6 == "AF_INET6"

\* the message of the Napi::Error
ErrorMessage == "Error occurred when searching for network interfaces"
NoException == "none"

\* the threads that can run the function: Node's main thread and a worker
Callers == {"main", "worker"}

(* ------------------- the OS's entries (struct ifaddrs) ----------------- *)

\* struct in_addr: the four bytes of the 32-bit address, in memory order
Quad(a, b, c, d) == <<a, b, c, d>>

\* struct sockaddr with its family and, for AF_INET, sin_addr
SockAddr(fam, a) == [sa_family |-> fam, sin_addr |-> a]

\* a struct sockaddr * : the null pointer, or a pointer to sa
NoAddr == <<>>
AddrPtr(sa) == <<sa>>
Deref(p) == p[1]

\* one struct ifaddrs: ifa_name, ifa_addr and ifa_broadaddr (pointers)
Entry(n, a, b) == [ifa_name |-> n, ifa_addr |-> a, ifa_broadaddr |-> b]

\* an address with its broadcast address
Eth0 == Entry("eth0", AddrPtr(SockAddr(AF_INET, Quad(192, 168, 1, 10))),
                      AddrPtr(SockAddr(AF_INET, Quad(192, 168, 1, 255))))
\* a second address on the same interface name
Eth0Alias == Entry("eth0", AddrPtr(SockAddr(AF_INET, Quad(10, 0, 0, 5))),
                           AddrPtr(SockAddr(AF_INET, Quad(10, 255, 255, 255))))
\* an entry of another address family
Eth0V6 == Entry("eth0", AddrPtr(SockAddr(AF_INET6, Quad(0, 0, 0, 0))), NoAddr)
\* an interface without an address: ifa_addr is null
Tun0 == Entry("tun0", NoAddr, NoAddr)
\* an IPv4 entry whose ifa_broadaddr is null
Ppp0 == Entry("ppp0", AddrPtr(SockAddr(AF_INET, Quad(10, 8, 0, 1))), NoAddr)

EntrySet == {Eth0, Eth0Alias, Eth0V6, Tun0, Ppp0}

Lists == UNION {[1..n -> EntrySet] : n \in 0..MaxLen}

(* --------------------------- inet_ntop --------------------------------- *)

Digit(d) == CASE d = 0 -> "0" [] d = 1 -> "1" [] d = 2 -> "2" [] d = 3 -> "3"
              [] d = 4 -> "4" [] d = 5 -> "5" [] d = 6 -> "6" [] d = 7 -> "7"
              [] d = 8 -> "8" [] d = 9 -> "9"

RECURSIVE Decimal(_)
\* the decimal digits of n, most significant first, no leading zero
Decimal(n) == IF n < 10 THEN <<Digit(n)>>
              ELSE Append(Decimal(n \div 10), Digit(n % 10))

\* byte k (0..3) of a sin_addr, in memory order
Octet(a, k) == a[k + 1]

\* the dotted-decimal text of a sin_addr
DottedDecimal(a) == Decimal(Octet(a, 0)) \o <<".">> \o Decimal(Octet(a, 1))
                    \o <<".">> \o Decimal(Octet(a, 2)) \o <<".">>
                    \o Decimal(Octet(a, 3))

NUL == "NUL"

\* a char array after a NUL-terminated text was written at its start
WriteCStr(buf, text) ==
    [i \in 1..Len(buf) |-> IF i <= Len(text) THEN text[i]
                           ELSE IF i = Len(text) + 1 THEN NUL ELSE buf[i]]

\* inet_ntop(AF_INET, &sin_addr, buf, size): buf afterwards (untouched when
\* the text and its terminator do not fit in size)
inet_ntop(a, buf, size) ==
    IF Len(DottedDecimal(a)) + 1 > size THEN buf
    ELSE WriteCStr(buf, DottedDecimal(a))

RECURSIVE ReadCStr(_)
\* Napi::String::New(env, buf): the chars before the first NUL
ReadCStr(buf) == IF buf = <<>> \/ Head(buf) = NUL THEN <<>>
                 ELSE <<Head(buf)>> \o ReadCStr(Tail(buf))

\* what the uninitialised ip_addr_buffer may hold
GarbageBuffers == {[i \in 1..INET_ADDRSTRLEN |-> ch] : ch \in {"9", NUL}}

(* ------------------------ the record of an entry ----------------------- *)

\* BuildRecord with both strings made after the second conversion, so that
\* address is read from the buffer that by then holds the broadcast text
BuildRecordLate(e, buf) ==
    LET buf1 == inet_ntop(Deref(e.ifa_addr).sin_addr, buf, INET_ADDRSTRLEN)
        buf2 == inet_ntop(Deref(e.ifa_broadaddr).sin_addr, buf1, INET_ADDRSTRLEN)
    IN  [name |-> e.ifa_name, address |-> ReadCStr(buf2), broadcast |-> ReadCStr(buf2)]

\* the object built from an IPv4 entry (both inet_ntop calls share buf)
BuildRecord(e, buf) ==
    LET buf1 == inet_ntop(Deref(e.ifa_addr).sin_addr, buf, INET_ADDRSTRLEN)
        address == ReadCStr(buf1)
        buf2 == inet_ntop(Deref(e.ifa_broadaddr).sin_addr, buf1, INET_ADDRSTRLEN)
        broadcast == ReadCStr(buf2)
    IN  [name |-> e.ifa_name, address |-> address, broadcast |-> broadcast]

\* StoreRecord writing out[0] whatever index is
StoreRecordAtZero(arr, i, obj) ==
    IF arr = <<>> THEN <<obj>> ELSE [arr EXCEPT ![1] = obj]

\* out[index] = obj on a JavaScript array of length index
StoreRecord(arr, i, obj) ==
    IF i = Len(arr) THEN Append(arr, obj)
    ELSE [arr EXCEPT ![i + 1] = obj]

(* ------------------------------- state --------------------------------- *)

VARIABLES
    os,          \* the entries the OS would report now
    heap,        \* the entry lists getifaddrs has allocated, by handle
    calls,       \* invocations started so far
    crashed,     \* the process has faulted
    pc,          \* each caller's position in ListInterfaces
    cur,         \* the number of each caller's invocation
    rc,          \* what getifaddrs returned to the invocation
    exc,         \* the pending JavaScript exception of the invocation
    interfaces,  \* the local struct ifaddrs *interfaces
    pos,         \* the loop cursor ifa, as a position in the list
    index,       \* the local int index
    out          \* the local Napi::Array out

vars == <<os, heap, calls, crashed, pc, cur, rc, exc, interfaces, pos, index, out>>

Handles == 1..Len(heap)

\* the entries behind a pointer to a list
ListOf(h) == IF h \in Handles THEN heap[h].entries ELSE <<>>

\* ifa == NULL
AtEnd(c) == interfaces[c] = NULL
            \/ (interfaces[c] \in Handles /\ pos[c] > Len(ListOf(interfaces[c])))

\* *ifa, when ifa points into a list
Ifa(c) == ListOf(interfaces[c])[pos[c]]

Init ==
    /\ os \in Lists
    /\ heap = <<>>
    /\ calls = 0
    /\ crashed = FALSE
    /\ pc = [c \in Callers |-> "idle"]
    /\ cur = [c \in Callers |-> 0]
    /\ rc = [c \in Callers |-> "none"]
    /\ exc = [c \in Callers |-> NoException]
    /\ interfaces = [c \in Callers |-> NULL]
    /\ pos = [c \in Callers |-> 1]
    /\ index = [c \in Callers |-> 0]
    /\ out = [c \in Callers |-> <<>>]

(* ------------------------------ the OS --------------------------------- *)

\* an address is configured between two queries
OsAddrAdded ==
    /\ ~crashed
    /\ Len(os) < MaxLen
    /\ \E e \in EntrySet : os' = Append(os, e)
    /\ UNCHANGED <<heap, calls, crashed, pc, cur, rc, exc, interfaces, pos, index, out>>

(* --------------------------- ListInterfaces ---------------------------- *)

\* entry: out = Napi::Array::New(env), interfaces declared without a value,
\* index = 0
Call(c) ==
    /\ ~crashed
    /\ pc[c] = "idle"
    /\ calls < MaxCalls
    /\ calls' = calls + 1
    /\ cur' = [cur EXCEPT ![c] = calls + 1]
    /\ out' = [out EXCEPT ![c] = <<>>]
    /\ index' = [index EXCEPT ![c] = 0]
    /\ rc' = [rc EXCEPT ![c] = "none"]
    /\ exc' = [exc EXCEPT ![c] = NoException]
    /\ pc' = [pc EXCEPT ![c] = "query"]
    /\ UNCHANGED <<os, heap, crashed, interfaces, pos>>

\* getifaddrs(&interfaces) == 0: interfaces points to a new list holding the
\* OS's entries (the null pointer when there are none); then ifa = interfaces
GetIfAddrsOk(c) ==
    /\ ~crashed
    /\ pc[c] = "query"
    /\ rc' = [rc EXCEPT ![c] = "ok"]
    /\ IF os = <<>>
       THEN /\ interfaces' = [interfaces EXCEPT ![c] = NULL]
            /\ heap' = heap
       ELSE /\ heap' = Append(heap, [entries |-> os, owner |-> cur[c],
                                     released |-> 0, users |-> {}])
            /\ interfaces' = [interfaces EXCEPT ![c] = Len(heap) + 1]
    /\ pos' = [pos EXCEPT ![c] = 1]
    /\ pc' = [pc EXCEPT ![c] = "loop"]
    /\ UNCHANGED <<os, calls, crashed, cur, exc, index, out>>

\* what the never-assigned local may hold: null, the address of any list
\* allocated so far, or an address that is no list
GarbagePointers == {NULL, WildPtr} \cup Handles

\* getifaddrs(&interfaces) != 0: the exception becomes pending, and, there
\* being no return, control reaches the loop with interfaces as it was
GetIfAddrsFail(c) ==
    /\ ~crashed
    /\ pc[c] = "query"
    /\ rc' = [rc EXCEPT ![c] = "failed"]
    /\ exc' = [exc EXCEPT ![c] = ErrorMessage]
    /\ \E g \in GarbagePointers : interfaces' = [interfaces EXCEPT ![c] = g]
    /\ pos' = [pos EXCEPT ![c] = 1]
    /\ pc' = [pc EXCEPT ![c] = "loop"]
    /\ UNCHANGED <<os, heap, calls, crashed, cur, index, out>>

\* the heap after invocation c has read list h
Used(c, h) == [heap EXCEPT ![h].users = @ \cup {cur[c]}]

\* ifa->ifa_addr->sa_family with ifa_addr null, or the second inet_ntop with
\* ifa_broadaddr null: a load from an unmapped address
NullDeref(e) ==
    IF e.ifa_addr = NoAddr THEN TRUE
    ELSE Deref(e.ifa_addr).sa_family = AF_INET /\ e.ifa_broadaddr = NoAddr

\* ifa != NULL is false: leave the loop
LoopExit(c) ==
    /\ ~crashed
    /\ pc[c] = "loop"
    /\ AtEnd(c)
    /\ pc' = [pc EXCEPT ![c] = "free"]
    /\ UNCHANGED <<os, heap, calls, crashed, cur, rc, exc, interfaces, pos, index, out>>

\* sa_family != AF_INET: continue
LoopSkip(c) ==
    /\ ~crashed
    /\ pc[c] = "loop"
    /\ interfaces[c] \in Handles
    /\ ~AtEnd(c)
    /\ Ifa(c).ifa_addr # NoAddr
    /\ Deref(Ifa(c).ifa_addr).sa_family # AF_INET
    /\ heap' = Used(c, interfaces[c])
    /\ pos' = [pos EXCEPT ![c] = @ + 1]
    /\ UNCHANGED <<os, calls, crashed, pc, cur, rc, exc, interfaces, index, out>>

\* an AF_INET entry: build obj, out[index] = obj, index++
LoopEmit(c) ==
    /\ ~crashed
    /\ pc[c] = "loop"
    /\ interfaces[c] \in Handles
    /\ ~AtEnd(c)
    /\ ~NullDeref(Ifa(c))
    /\ Ifa(c).ifa_addr # NoAddr
    /\ Deref(Ifa(c).ifa_addr).sa_family = AF_INET
    /\ \E buf \in GarbageBuffers :
          out' = [out EXCEPT ![c] = StoreRecord(@, index[c], BuildRecord(Ifa(c), buf))]
    /\ index' = [index EXCEPT ![c] = @ + 1]
    /\ heap' = Used(c, interfaces[c])
    /\ pos' = [pos EXCEPT ![c] = @ + 1]
    /\ UNCHANGED <<os, calls, crashed, pc, cur, rc, exc, interfaces>>

\* the loop body faults: a null ifa_addr or ifa_broadaddr is dereferenced,
\* ifa is no list at all, or the list has been freed and its memory is gone
LoopFault(c) ==
    /\ ~crashed
    /\ pc[c] = "loop"
    /\ ~AtEnd(c)
    /\ \/ interfaces[c] = WildPtr
       \/ /\ interfaces[c] \in Handles
          /\ \/ heap[interfaces[c]].released > 0
             \/ NullDeref(Ifa(c))
    /\ heap' = IF interfaces[c] \in Handles THEN Used(c, interfaces[c]) ELSE heap
    /\ pc' = [pc EXCEPT ![c] = "fault"]
    /\ crashed' = TRUE
    /\ UNCHANGED <<os, calls, cur, rc, exc, interfaces, pos, index, out>>

\* freeifaddrs(interfaces): nothing for the null pointer, else the list is
\* released (again, when it was released before and the allocator lets it by)
FreeIfAddrs(c) ==
    /\ ~crashed
    /\ pc[c] = "free"
    /\ interfaces[c] # WildPtr
    /\ heap' = IF interfaces[c] \in Handles
               THEN [heap EXCEPT ![interfaces[c]].released = @ + 1,
                                 ![interfaces[c]].users = @ \cup {cur[c]}]
               ELSE heap
    /\ pc' = [pc EXCEPT ![c] = "return"]
    /\ UNCHANGED <<os, calls, crashed, cur, rc, exc, interfaces, pos, index, out>>

\* freeifaddrs(interfaces) faults: interfaces is no list, or the allocator
\* detects the second release
FreeFault(c) ==
    /\ ~crashed
    /\ pc[c] = "free"
    /\ \/ interfaces[c] = WildPtr
       \/ interfaces[c] \in Handles /\ heap[interfaces[c]].released > 0
    /\ heap' = IF interfaces[c] \in Handles THEN Used(c, interfaces[c]) ELSE heap
    /\ pc' = [pc EXCEPT ![c] = "fault"]
    /\ crashed' = TRUE
    /\ UNCHANGED <<os, calls, cur, rc, exc, interfaces, pos, index, out>>

\* return out: the caller has the array and the pending exception, and the
\* frame with its locals is gone
Return(c) ==
    /\ ~crashed
    /\ pc[c] = "return"
    /\ pc' = [pc EXCEPT ![c] = "idle"]
    /\ cur' = [cur EXCEPT ![c] = 0]
    /\ rc' = [rc EXCEPT ![c] = "none"]
    /\ exc' = [exc EXCEPT ![c] = NoException]
    /\ interfaces' = [interfaces EXCEPT ![c] = NULL]
    /\ pos' = [pos EXCEPT ![c] = 1]
    /\ index' = [index EXCEPT ![c] = 0]
    /\ out' = [out EXCEPT ![c] = <<>>]
    /\ UNCHANGED <<os, heap, calls, crashed>>

Next ==
    \/ OsAddrAdded
    \/ \E c \in Callers :
          \/ Call(c)
          \/ GetIfAddrsOk(c)
          \/ GetIfAddrsFail(c)
          \/ LoopExit(c)
          \/ LoopSkip(c)
          \/ LoopEmit(c)
          \/ LoopFault(c)
          \/ FreeIfAddrs(c)
          \/ FreeFault(c)
          \/ Return(c)

Spec == Init /\ [][Next]_vars

(* ----------------------- vocabulary of the claims ---------------------- *)

\* the entry's address family is IPv4
IsIPv4(e) == IF e.ifa_addr = NoAddr THEN FALSE
             ELSE Deref(e.ifa_addr).sa_family = AF_INET

\* the IPv4 entries among the first n entries of a list, in list order
IPv4Entries(list, n) ==
    SelectSeq(SubSeq(list, 1, IF n < Len(list) THEN n ELSE Len(list)), IsIPv4)

NumIPv4(list) == Len(IPv4Entries(list, Len(list)))

DigitChars == {"0", "1", "2", "3", "4", "5", "6", "7", "8", "9"}

\* the value of each digit char
DigitValues == [ch \in DigitChars |-> CHOOSE d \in 0..9 : Digit(d) = ch]

DigitValue(ch) == DigitValues[ch]

RECURSIVE ParseQuad(_, _, _, _, _)
\* reads dotted-decimal text from position i on: bytes are the octets read
\* so far, n the value and digits the number of digits of the octet being
\* read; <<>> when the text is no dotted-decimal IPv4 address
ParseQuad(text, i, bytes, n, digits) ==
    IF i > Len(text)
    THEN IF digits > 0 /\ Len(bytes) = 3 THEN Append(bytes, n) ELSE <<>>
    ELSE IF text[i] = "."
         THEN IF digits > 0 /\ Len(bytes) < 3
              THEN ParseQuad(text, i + 1, Append(bytes, n), 0, 0)
              ELSE <<>>
         ELSE IF text[i] \in DigitChars
              THEN LET v == n * 10 + DigitValue(text[i])
                   IN  IF v > 255 \/ (digits > 0 /\ n = 0) THEN <<>>
                       ELSE ParseQuad(text, i + 1, bytes, v, digits + 1)
              ELSE <<>>

\* text back to the four bytes of an address (inet_pton)
inet_pton(text) == ParseQuad(text, 1, <<>>, 0, 0)

\* a record with its two texts parsed back to bytes
Parsed(r) == [name |-> r.name,
              address |-> inet_pton(r.address),
              broadcast |-> inet_pton(r.broadcast)]

\* the parsed record p carries the name and the two addresses of entry e
Matches(p, e) ==
    /\ IsIPv4(e)
    /\ e.ifa_broadaddr # NoAddr
    /\ p.name = e.ifa_name
    /\ p.address = Deref(e.ifa_addr).sin_addr
    /\ p.broadcast = Deref(e.ifa_broadaddr).sin_addr

\* the invocation is past the query
Querying(c) == pc[c] \in {"loop", "free", "return", "fault"}

\* the list the invocation's pointer leads to
Traversed(c) == ListOf(interfaces[c])

\* the entries the loop has been through
Processed(c) == pos[c] - 1

(* ------------------------------- claims -------------------------------- *)

\* C1: after a failed getifaddrs the invocation abandons enumeration: the
\* fixed error is pending, the loop body is never entered, no record is
\* built and nothing faults, whatever the pointer holds.
C1_FailedQueryAbandons ==
    \A c \in Callers :
        rc[c] = "failed" =>
            /\ exc[c] = ErrorMessage
            /\ pc[c] # "fault"
            /\ Processed(c) = 0
            /\ out[c] = <<>>

\* C2: every entry list is released exactly once before its invocation
\* ends: never twice, and an invocation that returns has released the list
\* it acquired.
C2_ReleasedExactlyOnce ==
    /\ \A h \in Handles : heap[h].released <= 1
    /\ \A c \in Callers :
          (pc[c] = "return" /\ rc[c] = "ok" /\ interfaces[c] \in Handles)
              => heap[interfaces[c]].released = 1

\* C3: after a successful query every entry yields a record if and only if
\* it is IPv4 and none causes an error: the invocation never faults, and the
\* records number the IPv4 entries gone through.
C3_RecordIffIPv4 ==
    \A c \in Callers :
        rc[c] = "ok" =>
            /\ pc[c] # "fault"
            /\ Len(out[c]) = Len(IPv4Entries(Traversed(c), Processed(c)))

\* C4: after a successful query the output is a subsequence of the entry
\* list: each IPv4 entry gone through has its record, each record is that of
\* an IPv4 entry, and of two IPv4 entries the earlier one's record has the
\* smaller output index.
C4_OutputIsOrderedSubsequence ==
    \A c \in Callers :
        (rc[c] = "ok" /\ Querying(c)) =>
            LET done == IPv4Entries(Traversed(c), Processed(c))
                recs == [a \in 1..Len(out[c]) |-> Parsed(out[c][a])]
            IN  /\ Len(recs) <= Len(done)
                /\ \A a \in 1..Len(recs) : \E i \in 1..Len(done) : Matches(recs[a], done[i])
                /\ \A i \in 1..Len(done) : \E a \in 1..Len(recs) : Matches(recs[a], done[i])
                /\ \A i, j \in 1..Len(done) :
                      i < j => \E a, b \in 1..Len(recs) :
                                  /\ a < b
                                  /\ Matches(recs[a], done[i])
                                  /\ Matches(recs[b], done[j])

C4_Witness ==
    \E c \in Callers :
        /\ rc[c] = "ok"
        /\ pc[c] = "return"
        /\ Traversed(c) = <<Eth0Alias, Eth0>>
        /\ Len(out[c]) = 2
        /\ out[c][1].address = <<"1", "0", ".", "0", ".", "0", ".", "5">>
        /\ out[c][2].address = <<"1", "9", "2", ".", "1", "6", "8", ".", "1", ".", "1", "0">>

\* C5: the failed query is the only error: after a successful query the
\* invocation completes without a fault and without an exception, whatever
\* entries the list holds (null ifa_addr and null ifa_broadaddr included).
C5_OnlyErrorIsQueryFailure ==
    \A c \in Callers :
        rc[c] = "ok" => (pc[c] # "fault" /\ exc[c] = NoException)

\* C6: the k-th record carries the fields of the k-th IPv4 entry of the
\* list being traversed: its name, and address and broadcast texts that
\* parse back to exactly the bytes of ifa_addr and of ifa_broadaddr.
C6_FieldsRoundTrip ==
    \A c \in Callers :
        Querying(c) =>
            LET from == IPv4Entries(Traversed(c), Len(Traversed(c)))
            IN  /\ Len(out[c]) <= Len(from)
                /\ \A k \in 1..Len(out[c]) :
                      /\ from[k].ifa_broadaddr # NoAddr
                      /\ out[c][k].name = from[k].ifa_name
                      /\ inet_pton(out[c][k].address) = Deref(from[k].ifa_addr).sin_addr
                      /\ inet_pton(out[c][k].broadcast) = Deref(from[k].ifa_broadaddr).sin_addr

C6_Witness ==
    \E c \in Callers :
        /\ Traversed(c) = <<Eth0V6, Eth0>>
        /\ out[c] = <<[name |-> "eth0",
                       address |-> <<"1", "9", "2", ".", "1", "6", "8", ".", "1", ".", "1", "0">>,
                       broadcast |-> <<"1", "9", "2", ".", "1", "6", "8", ".", "1", ".", "2", "5", "5">>]>>

\* C7: a successful query whose list holds no IPv4 entry ends in success
\* with an empty output: no fault, no exception, no record.
C7_NoIPv4IsEmptySuccess ==
    \A c \in Callers :
        (rc[c] = "ok" /\ NumIPv4(Traversed(c)) = 0) =>
            /\ pc[c] # "fault"
            /\ exc[c] = NoException
            /\ out[c] = <<>>

\* C8: invocations share nothing: a list is read and released by the
\* invocation that acquired it and by no other.
C8_NoSharedState ==
    \A h \in Handles : heap[h].users \subseteq {heap[h].owner}

\* C9: interfaces is traversed or handed to freeifaddrs only after the
\* invocation's own getifaddrs succeeded.
C9_HandleUsedOnlyAfterSuccess ==
    \A c \in Callers : pc[c] \in {"loop", "free"} => rc[c] = "ok"

\* C10: index counts the records stored, which fill positions 0..index-1,
\* and the loop ends having gone through every entry of the list once, with
\* index the number of IPv4 entries.
C10_IndexCountsRecords ==
    \A c \in Callers :
        /\ index[c] = Len(out[c])
        /\ (rc[c] = "ok" /\ pc[c] \in {"free", "return", "fault"}) =>
              /\ Processed(c) = Len(Traversed(c))
              /\ index[c] = NumIPv4(Traversed(c))

====
